---------------------------- MODULE Spec2Model ----------------------------
(***************************************************************************)
(* A model of the todo command-line manager of src/src/main.rs.            *)
(*                                                                         *)
(* Every run of the program is one invocation: it loads the collection    *)
(* from the backing file, runs one command and exits.  An action of this  *)
(* module is one whole invocation.  The variables hold the backing file   *)
(* and what the last invocation saw: the collection it loaded, the        *)
(* collection it held in memory when it ended, and its outcome.           *)
(*                                                                         *)
(* Texts whose letters matter (priority, category, tags) are sequences of *)
(* one-character strings; a due-date text is the sequence of its numeric  *)
(* fields; titles and descriptions are opaque strings.                    *)
(***************************************************************************)
EXTENDS Integers, Sequences, FiniteSets, TLC

VARIABLES
    disk,      \* the backing file ~/.todo-cli.json
    tasks,     \* TodoManager.tasks when the last invocation ended
    before,    \* TodoManager.tasks as the last invocation loaded it
    diskBefore,\* the backing file when the last invocation started
    last,      \* command, arguments and outcome of the last invocation
    removed    \* history: the ids that a successful Remove has deleted

vars == <<disk, tasks, before, diskBefore, last, removed>>

---------------------------------------------------------------------------
(* Bounds of the model *)

MaxTasks == 2      \* Add is not run on a collection of this size

---------------------------------------------------------------------------
(* Option<T> *)

None == <<>>
Some(x) == <<x>>
IsSome(o) == Len(o) = 1
Unwrap(o) == o[1]

---------------------------------------------------------------------------
(* Texts *)

UpperLetters == <<"A","B","C","D","E","F","G","H","I","J","K","L","M",
                  "N","O","P","Q","R","S","T","U","V","W","X","Y","Z">>
LowerLetters == <<"a","b","c","d","e","f","g","h","i","j","k","l","m",
                  "n","o","p","q","r","s","t","u","v","w","x","y","z">>

LowerChar(c) ==
    IF \E i \in DOMAIN UpperLetters : UpperLetters[i] = c
    THEN LowerLetters[CHOOSE i \in DOMAIN UpperLetters : UpperLetters[i] = c]
    ELSE c

\* str::to_lowercase
to_lowercase(s) == [i \in DOMAIN s |-> LowerChar(s[i])]

\* str::trim: drop the leading and the trailing spaces
RECURSIVE TrimStart(_)
TrimStart(s) ==
    IF s # <<>> /\ Head(s) = " " THEN TrimStart(Tail(s)) ELSE s

RECURSIVE TrimEnd(_)
TrimEnd(s) ==
    IF s # <<>> /\ s[Len(s)] = " " THEN TrimEnd(SubSeq(s, 1, Len(s) - 1)) ELSE s

trim(s) == TrimEnd(TrimStart(s))

\* str::split(','): the pieces between the commas, empty pieces included
RECURSIVE SplitFrom(_, _)
SplitFrom(s, piece) ==
    IF s = <<>> THEN <<piece>>
    ELSE IF Head(s) = "," THEN <<piece>> \o SplitFrom(Tail(s), <<>>)
    ELSE SplitFrom(Tail(s), Append(piece, Head(s)))

split_comma(s) == SplitFrom(s, <<>>)

\* t.split(',').map(|s| s.trim().to_string()).collect()
parse_tags(text) ==
    LET pieces == split_comma(text)
    IN  [i \in DOMAIN pieces |-> trim(pieces[i])]

---------------------------------------------------------------------------
(* enum Priority, enum Category *)

Priorities == {"Low", "Medium", "High", "Critical"}
FixedCategories == {"Personal", "Work", "Shopping", "Health"}

Fixed(v) == [variant |-> v, label |-> <<>>]
Other(s) == [variant |-> "Other", label |-> s]

\* format!("{:?}", x) of a unit variant, as a text
DebugName(v) ==
    CASE v = "Low"      -> <<"L","o","w">>
      [] v = "Medium"   -> <<"M","e","d","i","u","m">>
      [] v = "High"     -> <<"H","i","g","h">>
      [] v = "Critical" -> <<"C","r","i","t","i","c","a","l">>
      [] v = "Personal" -> <<"P","e","r","s","o","n","a","l">>
      [] v = "Work"     -> <<"W","o","r","k">>
      [] v = "Shopping" -> <<"S","h","o","p","p","i","n","g">>
      [] v = "Health"   -> <<"H","e","a","l","t","h">>

\* match priority.to_lowercase().as_str() { "low" => ..., _ => Err }
parse_priority(text) ==
    LET l == to_lowercase(text)
    IN  IF \E p \in Priorities : to_lowercase(DebugName(p)) = l
        THEN [ok |-> TRUE,
              value |-> CHOOSE p \in Priorities : to_lowercase(DebugName(p)) = l]
        ELSE [ok |-> FALSE, value |-> "Low"]

\* match category.to_lowercase().as_str() { "personal" => ..., other => Other(other) }
\* `other` binds the scrutinee, which is the lowercased text.
parse_category(text) ==
    LET l == to_lowercase(text)
    IN  IF \E c \in FixedCategories : to_lowercase(DebugName(c)) = l
        THEN Fixed(CHOOSE c \in FixedCategories : to_lowercase(DebugName(c)) = l)
        ELSE Other(l)

---------------------------------------------------------------------------
(* NaiveDateTime::parse_from_str(text, "%Y-%m-%d %H:%M") *)

IsLeap(y) == (y % 4 = 0 /\ y % 100 # 0) \/ y % 400 = 0

DaysIn(y, m) ==
    IF m = 2 THEN (IF IsLeap(y) THEN 29 ELSE 28)
    ELSE IF m \in {4, 6, 9, 11} THEN 30 ELSE 31

\* The text is given as its numeric fields.  Five fields in range parse;
\* a missing or an extra field, or a field out of range, is an error.
parse_due(text) ==
    IF /\ Len(text) = 5
       /\ text[2] \in 1..12
       /\ text[3] \in 1..DaysIn(text[1], text[2])
       /\ text[4] \in 0..23
       /\ text[5] \in 0..59
    THEN [ok |-> TRUE,
          value |-> [year |-> text[1], month |-> text[2], day |-> text[3],
                     hour |-> text[4], minute |-> text[5]]]
    ELSE [ok |-> FALSE,
          value |-> [year |-> 0, month |-> 0, day |-> 0, hour |-> 0, minute |-> 0]]

---------------------------------------------------------------------------
(* Task::new *)

NoTask == None

Task_new(id, title, description, due_date, priority, category, tags, now) ==
    LET p == parse_priority(priority)
        c == parse_category(category)
        d == IF IsSome(due_date) THEN parse_due(Unwrap(due_date))
             ELSE [ok |-> TRUE, value |-> None]
    IN  IF ~p.ok THEN [res |-> "InvalidPriority", task |-> NoTask]
        ELSE IF ~d.ok THEN [res |-> "InvalidDate", task |-> NoTask]
        ELSE [res |-> "ok",
              task |-> Some([id |-> id,
                             title |-> title,
                             description |-> description,
                             completed |-> FALSE,
                             created_at |-> now,
                             due_date |-> IF IsSome(due_date) THEN Some(d.value) ELSE None,
                             priority |-> p.value,
                             category |-> c,
                             tags |-> IF IsSome(tags) THEN parse_tags(Unwrap(tags))
                                      ELSE <<>>])]

---------------------------------------------------------------------------
(* serde_json: the document written to and read from the backing file *)

\* As ser_category, with the label of a user-defined category left out
ser_category_NoLabel(c) ==
    IF c.variant = "Other" THEN <<"Other", <<>>>> ELSE <<c.variant>>

ser_category(c) ==
    IF c.variant = "Other" THEN <<"Other", c.label>> ELSE <<c.variant>>

de_category(j) ==
    IF Len(j) = 2 THEN Other(j[2]) ELSE Fixed(j[1])

\* NaiveDateTime is written as "YYYY-MM-DDTHH:MM:SS"
ser_due(o) ==
    IF IsSome(o)
    THEN LET d == Unwrap(o) IN <<d.year, d.month, d.day, d.hour, d.minute, 0>>
    ELSE <<>>

de_due(j) ==
    IF j = <<>> THEN None
    ELSE Some([year |-> j[1], month |-> j[2], day |-> j[3],
               hour |-> j[4], minute |-> j[5]])

\* DateTime<Local> is written as an RFC 3339 text with its offset
ser_created(t) == [rfc3339 |-> t]
de_created(j) == j.rfc3339

ser_task(t) ==
    [j_id |-> t.id,
     j_title |-> t.title,
     j_description |-> t.description,
     j_completed |-> t.completed,
     j_created_at |-> ser_created(t.created_at),
     j_due_date |-> ser_due(t.due_date),
     j_priority |-> DebugName(t.priority),
     j_category |-> ser_category(t.category),
     j_tags |-> t.tags]

de_task(j) ==
    [id |-> j.j_id,
     title |-> j.j_title,
     description |-> j.j_description,
     completed |-> j.j_completed,
     created_at |-> de_created(j.j_created_at),
     due_date |-> de_due(j.j_due_date),
     priority |-> CHOOSE p \in Priorities : DebugName(p) = j.j_priority,
     category |-> de_category(j.j_category),
     tags |-> j.j_tags]

to_string_pretty(ts) == [i \in DOMAIN ts |-> ser_task(ts[i])]
from_str(doc) == [i \in DOMAIN doc |-> de_task(doc[i])]

---------------------------------------------------------------------------
(* The backing file *)

NoFile == [exists |-> FALSE, valid |-> FALSE, doc |-> <<>>]
Garbage == [exists |-> TRUE, valid |-> FALSE, doc |-> <<>>]
FileOf(doc) == [exists |-> TRUE, valid |-> TRUE, doc |-> doc]

\* fs::write either replaces the whole file, or fails before it touched the
\* file, or fails after it truncated it.
IoOutcomes == {"written", "refused", "truncated"}

\* TodoManager::new
TodoManager_new(d) ==
    IF d.exists /\ d.valid THEN from_str(d.doc) ELSE <<>>

\* TodoManager::save
save(ts, d, io) ==
    IF io = "written" THEN [res |-> "ok", disk |-> FileOf(to_string_pretty(ts))]
    ELSE IF io = "refused" THEN [res |-> "IoError", disk |-> d]
    ELSE [res |-> "IoError", disk |-> Garbage]

---------------------------------------------------------------------------
(* TodoManager's operations.  Each answers the collection, the file and   *)
(* the result it leaves.                                                   *)

\* iter().position(|t| t.id == id), 0 when there is none
Position(ts, id) ==
    IF \E i \in DOMAIN ts : ts[i].id = id
    THEN CHOOSE i \in DOMAIN ts :
            /\ ts[i].id = id
            /\ \A j \in 1..(i - 1) : ts[j].id # id
    ELSE 0

RemoveAt(ts, i) == SubSeq(ts, 1, i - 1) \o SubSeq(ts, i + 1, Len(ts))

\* As add_task, saving before it pushes
add_task_SaveFirst(ts, d, task, io) ==
    LET s == save(ts, d, io)
    IN  IF s.res = "ok" THEN [tasks |-> Append(ts, task), disk |-> s.disk, res |-> "ok"]
        ELSE [tasks |-> ts, disk |-> s.disk, res |-> s.res]

\* TodoManager::add_task
add_task(ts, d, task, io) ==
    LET pushed == Append(ts, task)
        s == save(pushed, d, io)
    IN  [tasks |-> pushed, disk |-> s.disk, res |-> s.res]

\* TodoManager::complete_task
complete_task(ts, d, id, io) ==
    LET i == Position(ts, id)
    IN  IF i # 0
        THEN LET done == [ts EXCEPT ![i].completed = TRUE]
                 s == save(done, d, io)
             IN  [tasks |-> done, disk |-> s.disk, res |-> s.res]
        ELSE [tasks |-> ts, disk |-> d, res |-> "NotFound"]

\* TodoManager::remove_task
remove_task(ts, d, id, io) ==
    LET i == Position(ts, id)
    IN  IF i # 0
        THEN LET rest == RemoveAt(ts, i)
                 s == save(rest, d, io)
             IN  [tasks |-> rest, disk |-> s.disk, res |-> s.res]
        ELSE [tasks |-> ts, disk |-> d, res |-> "NotFound"]

\* TodoManager::show_task
show_task(ts, id) ==
    LET i == Position(ts, id)
    IN  IF i # 0 THEN [res |-> "ok", task |-> Some(ts[i])]
        ELSE [res |-> "NotFound", task |-> NoTask]

\* As edit_apply, with the priority validated after the category and the
\* tags are assigned
edit_apply_PriorityLast(t, u) ==
    LET t1 == IF IsSome(u.title) THEN [t EXCEPT !.title = Unwrap(u.title)] ELSE t
        t2 == IF IsSome(u.description)
              THEN [t1 EXCEPT !.description = Some(Unwrap(u.description))] ELSE t1
        d  == IF IsSome(u.due) THEN parse_due(Unwrap(u.due))
              ELSE [ok |-> TRUE, value |-> None]
        t3 == IF IsSome(u.due) THEN [t2 EXCEPT !.due_date = Some(d.value)] ELSE t2
        t4 == IF IsSome(u.category)
              THEN [t3 EXCEPT !.category = parse_category(Unwrap(u.category))] ELSE t3
        t5 == IF IsSome(u.tags)
              THEN [t4 EXCEPT !.tags = parse_tags(Unwrap(u.tags))] ELSE t4
        p  == IF IsSome(u.priority) THEN parse_priority(Unwrap(u.priority))
              ELSE [ok |-> TRUE, value |-> t.priority]
        t6 == IF IsSome(u.priority) THEN [t5 EXCEPT !.priority = p.value] ELSE t5
    IN  IF ~d.ok THEN [task |-> t2, res |-> "InvalidDate"]
        ELSE IF ~p.ok THEN [task |-> t5, res |-> "InvalidPriority"]
        ELSE [task |-> t6, res |-> "ok"]

\* The field-by-field update of edit_task's body, on the task it found: the
\* task as the body leaves it, and the result.  A `?` or a `return Err`
\* leaves the body with the earlier assignments made.
edit_apply(t, u) ==
    LET t1 == IF IsSome(u.title) THEN [t EXCEPT !.title = Unwrap(u.title)] ELSE t
        t2 == IF IsSome(u.description)
              THEN [t1 EXCEPT !.description = Some(Unwrap(u.description))] ELSE t1
        d  == IF IsSome(u.due) THEN parse_due(Unwrap(u.due))
              ELSE [ok |-> TRUE, value |-> None]
        t3 == IF IsSome(u.due) THEN [t2 EXCEPT !.due_date = Some(d.value)] ELSE t2
        p  == IF IsSome(u.priority) THEN parse_priority(Unwrap(u.priority))
              ELSE [ok |-> TRUE, value |-> t.priority]
        t4 == IF IsSome(u.priority) THEN [t3 EXCEPT !.priority = p.value] ELSE t3
        t5 == IF IsSome(u.category)
              THEN [t4 EXCEPT !.category = parse_category(Unwrap(u.category))] ELSE t4
        t6 == IF IsSome(u.tags)
              THEN [t5 EXCEPT !.tags = parse_tags(Unwrap(u.tags))] ELSE t5
    IN  IF ~d.ok THEN [task |-> t2, res |-> "InvalidDate"]
        ELSE IF ~p.ok THEN [task |-> t3, res |-> "InvalidPriority"]
        ELSE [task |-> t6, res |-> "ok"]

\* As edit_task, saving whatever the update answered
edit_task_AlwaysSave(ts, d, id, u, io) ==
    LET i == Position(ts, id)
    IN  IF i # 0
        THEN LET r == edit_apply(ts[i], u)
                 edited == [ts EXCEPT ![i] = r.task]
                 s == save(edited, d, io)
             IN  [tasks |-> edited, disk |-> s.disk,
                  res |-> IF r.res = "ok" THEN s.res ELSE r.res]
        ELSE [tasks |-> ts, disk |-> d, res |-> "NotFound"]

\* TodoManager::edit_task
edit_task(ts, d, id, u, io) ==
    LET i == Position(ts, id)
    IN  IF i # 0
        THEN LET r == edit_apply(ts[i], u)
                 edited == [ts EXCEPT ![i] = r.task]
             IN  IF r.res = "ok"
                 THEN LET s == save(edited, d, io)
                      IN  [tasks |-> edited, disk |-> s.disk, res |-> s.res]
                 ELSE [tasks |-> edited, disk |-> d, res |-> r.res]
        ELSE [tasks |-> ts, disk |-> d, res |-> "NotFound"]

---------------------------------------------------------------------------
(* Task::to_row: the label a category is displayed with *)

category_str(c) ==
    IF c.variant = "Other" THEN c.label ELSE DebugName(c.variant)

---------------------------------------------------------------------------
(* TodoManager::list_tasks *)

category_match(t, f) ==
    IF IsSome(f.category)
    THEN IF t.category.variant = "Other"
         THEN t.category.label = Unwrap(f.category)
         ELSE Unwrap(f.category) = to_lowercase(DebugName(t.category.variant))
    ELSE TRUE

priority_match(t, f) ==
    IF IsSome(f.priority)
    THEN to_lowercase(DebugName(t.priority)) = Unwrap(f.priority)
    ELSE TRUE

\* As completion_match, with the pending flag looked at first
completion_match_PendingFirst(t, f) ==
    IF f.pending THEN ~t.completed
    ELSE IF f.completed THEN t.completed
    ELSE TRUE

completion_match(t, f) ==
    IF f.completed THEN t.completed
    ELSE IF f.pending THEN ~t.completed
    ELSE TRUE

list_tasks(ts, f) ==
    SelectSeq(ts, LAMBDA t : /\ category_match(t, f)
                             /\ priority_match(t, f)
                             /\ completion_match(t, f))

---------------------------------------------------------------------------
(* The command lines the invocations are drawn from *)

TxtLow == <<"l","o","w">>
TxtHIGH == <<"H","I","G","H">>
TxtUrgent == <<"u","r","g","e","n","t">>

TxtWork == <<"w","o","r","k">>
TxtWorkCap == <<"W","o","r","k">>
TxtGym == <<"g","y","m">>
TxtGymCap == <<"G","y","m">>

TxtTags == <<"x", ",", " ", "y", " ", ",">>      \* "x, y ,"

DueLeapDay == <<2024, 2, 29, 10, 0>>             \* "2024-02-29 10:00"
DueMonth13 == <<2024, 13, 40, 10, 0>>            \* "2024-13-40 10:00"
DueNoTime == <<2024, 1, 1>>                      \* "2024-01-01"

CategoryTexts == {TxtWork, TxtWorkCap, TxtGym, TxtGymCap}

Ids == 1..(MaxTasks + 1)

OptionOf(S) == {None} \cup {Some(x) : x \in S}

\* An Add command line, and what Local::now() answers when it runs
AddArgs(title, description, due, priority, category, tags, now) ==
    [title |-> title, description |-> description, due |-> due,
     priority |-> priority, category |-> category, tags |-> tags, now |-> now]

AddInputs ==
    { AddArgs("milk", None, None, TxtHIGH, TxtWorkCap, None, "09:00"),
      AddArgs("mom", Some("call"), Some(DueLeapDay), TxtLow, TxtGymCap, Some(TxtTags), "17:30"),
      AddArgs("mom", None, Some(DueMonth13), TxtLow, TxtWork, None, "09:00"),
      AddArgs("milk", None, Some(DueMonth13), TxtUrgent, TxtWork, None, "17:30") }

Updates(title, description, due, priority, category, tags) ==
    [title |-> title, description |-> description, due |-> due,
     priority |-> priority, category |-> category, tags |-> tags]

EditInputs ==
    { Updates(Some("tea"), None, Some(DueMonth13), None, None, None),
      Updates(None, Some("soon"), Some(DueLeapDay), Some(TxtUrgent), Some(TxtGymCap), Some(TxtTags)),
      Updates(Some("tea"), None, Some(DueNoTime), Some(TxtUrgent), None, Some(TxtTags)),
      Updates(None, None, Some(DueLeapDay), Some(TxtLow), Some(TxtGymCap), Some(TxtTags)),
      Updates(Some("milk"), None, None, None, Some(TxtWorkCap), None),
      Updates(None, None, None, Some(TxtUrgent), None, None),
      Updates(Some("tea"), Some("soon"), Some(DueMonth13), Some(TxtHIGH),
              Some(TxtGymCap), Some(TxtTags)) }

Filters(category, priority, completed, pending) ==
    [category |-> category, priority |-> priority,
     completed |-> completed, pending |-> pending]

ListInputs ==
    { Filters(None, None, FALSE, FALSE),
      Filters(None, None, TRUE, TRUE),
      Filters(None, None, FALSE, TRUE),
      Filters(Some(TxtWorkCap), None, FALSE, FALSE),
      Filters(Some(TxtGym), Some(TxtLow), TRUE, FALSE) }

---------------------------------------------------------------------------
(* main: one invocation per action *)

\* op: the command; args: its arguments (an AddArgs, an Updates or a Filters
\* record); id: the id it minted or was given; res: its result; task: the
\* task Add built or Show found; out: what List answered
Outcome(op, args, id, res, task, out) ==
    [op |-> op, args |-> args, id |-> id, res |-> res, task |-> task, out |-> out]

Init ==
    /\ disk \in {NoFile, Garbage}
    /\ tasks = <<>>
    /\ before = <<>>
    /\ diskBefore = disk
    /\ last = Outcome("none", None, 0, "ok", NoTask, <<>>)
    /\ removed = {}

\* A process is between its command and its exit
Running == last.op # "none"

\* Commands::Add
Add ==
    \E m \in {TodoManager_new(disk)} :
      /\ ~Running
      /\ Len(m) < MaxTasks
      /\ \E a \in AddInputs :
           LET id == Len(m) + 1
               n == Task_new(id, a.title, a.description, a.due, a.priority,
                             a.category, a.tags, a.now)
           IN  IF n.res = "ok"
               THEN \E r \in {add_task(m, disk, Unwrap(n.task), io) : io \in IoOutcomes} :
                      /\ tasks' = r.tasks
                      /\ disk' = r.disk
                      /\ last' = Outcome("add", a, id, r.res, n.task, <<>>)
               ELSE /\ tasks' = m
                    /\ disk' = disk
                    /\ last' = Outcome("add", a, id, n.res, NoTask, <<>>)
      /\ before' = m
      /\ diskBefore' = disk
      /\ UNCHANGED removed

\* Commands::List
List ==
    \E m \in {TodoManager_new(disk)} :
      /\ ~Running
      /\ \E f \in ListInputs :
           last' = Outcome("list", f, 0, "ok", NoTask, list_tasks(m, f))
      /\ tasks' = m
      /\ before' = m
      /\ diskBefore' = disk
      /\ UNCHANGED <<disk, removed>>

\* Commands::Show
Show ==
    \E m \in {TodoManager_new(disk)} :
      /\ ~Running
      /\ \E id \in Ids :
           LET r == show_task(m, id)
           IN  last' = Outcome("show", None, id, r.res, r.task, <<>>)
      /\ tasks' = m
      /\ before' = m
      /\ diskBefore' = disk
      /\ UNCHANGED <<disk, removed>>

\* Commands::Complete
Complete ==
    \E m \in {TodoManager_new(disk)} :
      /\ ~Running
      /\ \E id \in Ids :
           \E r \in {complete_task(m, disk, id, io) : io \in IoOutcomes} :
             /\ tasks' = r.tasks
             /\ disk' = r.disk
             /\ last' = Outcome("complete", None, id, r.res, NoTask, <<>>)
      /\ before' = m
      /\ diskBefore' = disk
      /\ UNCHANGED removed

\* Commands::Remove.  With `track` the history variable records the id.
RemoveCmd(track) ==
    \E m \in {TodoManager_new(disk)} :
      /\ ~Running
      /\ \E id \in Ids :
           \E r \in {remove_task(m, disk, id, io) : io \in IoOutcomes} :
             /\ tasks' = r.tasks
             /\ disk' = r.disk
             /\ last' = Outcome("remove", None, id, r.res, NoTask, <<>>)
             /\ removed' = IF track /\ r.res = "ok" THEN removed \cup {id} ELSE removed
      /\ before' = m
      /\ diskBefore' = disk

Remove == RemoveCmd(FALSE)
RemoveTracked == RemoveCmd(TRUE)

\* Commands::Edit
Edit ==
    \E m \in {TodoManager_new(disk)} :
      /\ ~Running
      /\ \E id \in Ids, u \in EditInputs :
           \E r \in {edit_task(m, disk, id, u, io) : io \in IoOutcomes} :
             /\ tasks' = r.tasks
             /\ disk' = r.disk
             /\ last' = Outcome("edit", u, id, r.res, NoTask, <<>>)
      /\ before' = m
      /\ diskBefore' = disk
      /\ UNCHANGED removed

\* main returns: the process ends and its memory is gone
Exit ==
    /\ Running
    /\ tasks' = <<>>
    /\ before' = <<>>
    /\ diskBefore' = disk
    /\ last' = Outcome("none", None, 0, "ok", NoTask, <<>>)
    /\ UNCHANGED <<disk, removed>>

Next == Add \/ List \/ Show \/ Complete \/ Remove \/ Edit \/ Exit

Spec == Init /\ [][Next]_vars

\* The same program, with the history of the removed ids recorded
NextHist == Add \/ List \/ Show \/ Complete \/ RemoveTracked \/ Edit \/ Exit

SpecHist == Init /\ [][NextHist]_vars

---------------------------------------------------------------------------
(* What the claims are stated with *)

ValidationErrors == {"InvalidDate", "InvalidPriority"}

DueInvalid(u) == IsSome(u.due) /\ ~parse_due(Unwrap(u.due)).ok
PriorityInvalid(u) == IsSome(u.priority) /\ ~parse_priority(Unwrap(u.priority)).ok

\* Every combination of supplied and unsupplied update fields that has an
\* invalid due-date text or an invalid priority text
FailingUpdates ==
    [title : OptionOf({"tea"}), description : OptionOf({"soon"}),
     due : {Some(DueMonth13)},
     priority : OptionOf({TxtHIGH, TxtUrgent}),
     category : OptionOf({TxtGymCap}), tags : OptionOf({TxtTags})]
    \cup
    [title : OptionOf({"tea"}), description : OptionOf({"soon"}),
     due : OptionOf({DueLeapDay}),
     priority : {Some(TxtUrgent)},
     category : OptionOf({TxtGymCap}), tags : OptionOf({TxtTags})]

\* Every ordered pair of positions of ts whose tasks share an id
SharedIds(ts) ==
    {p \in (DOMAIN ts) \X (DOMAIN ts) : p[1] < p[2] /\ ts[p[1]].id = ts[p[2]].id}

\* The tasks of ts with the given completed flag, in the order of ts
RECURSIVE WithFlag(_, _)
WithFlag(ts, flag) ==
    IF ts = <<>> THEN <<>>
    ELSE IF Head(ts).completed = flag
         THEN <<Head(ts)>> \o WithFlag(Tail(ts), flag)
         ELSE WithFlag(Tail(ts), flag)

\* Edit(id, u) took ts0 to ts1 with result res: when a supplied due-date or
\* priority text is invalid, it failed and no editable field changed.
EditAllOrNothing(ts0, ts1, id, u, res) ==
    (Position(ts0, id) # 0 /\ (DueInvalid(u) \/ PriorityInvalid(u))) =>
        /\ res \in ValidationErrors
        /\ Len(ts1) = Len(ts0)
        /\ \A i \in DOMAIN ts0 :
             /\ ts1[i].title = ts0[i].title
             /\ ts1[i].description = ts0[i].description
             /\ ts1[i].due_date = ts0[i].due_date
             /\ ts1[i].priority = ts0[i].priority
             /\ ts1[i].category = ts0[i].category
             /\ ts1[i].tags = ts0[i].tags

\* Edit(id, u) took ts0 to ts1 with result res: when a supplied due-date or
\* priority text is invalid, it failed; the fields assigned after the failed
\* validation kept their values and the fields assigned before it are written.
EditKeepsLaterFields(ts0, ts1, id, u, res) ==
    (Position(ts0, id) # 0 /\ (DueInvalid(u) \/ PriorityInvalid(u))) =>
        LET i == Position(ts0, id)
            o == ts0[i]
            n == ts1[i]
        IN  /\ res = (IF DueInvalid(u) THEN "InvalidDate" ELSE "InvalidPriority")
            /\ Len(ts1) = Len(ts0)
            /\ \A j \in DOMAIN ts0 : j # i => ts1[j] = ts0[j]
            /\ n.id = o.id /\ n.completed = o.completed /\ n.created_at = o.created_at
            /\ n.priority = o.priority
            /\ n.category = o.category
            /\ n.tags = o.tags
            /\ n.title = (IF IsSome(u.title) THEN Unwrap(u.title) ELSE o.title)
            /\ n.description = (IF IsSome(u.description) THEN u.description
                                ELSE o.description)
            /\ n.due_date = (IF IsSome(u.due) /\ ~DueInvalid(u)
                             THEN Some(parse_due(Unwrap(u.due)).value)
                             ELSE o.due_date)

---------------------------------------------------------------------------
(* The claims *)

\* C1 (as stated): an Edit whose supplied due-date or priority text is
\* invalid returns an error and leaves every field of the in-memory task
\* (title, description, due date, priority, category, tags) as it was.
C1_EditAllOrNothing ==
    last.op = "edit" =>
        EditAllOrNothing(before, tasks, last.id, last.args, last.res)

\* C1 (amended): an Edit whose supplied due-date or priority text is invalid
\* returns an error and leaves the priority, the category and the tags of the
\* in-memory task as they were, and the due date too unless it was supplied
\* and valid; a supplied title and description, and a valid supplied due date
\* when only the priority text is invalid, are already written.  It holds of
\* every Edit that ran, and of every combination of update fields on every
\* stored collection.
C1_EditKeepsLaterFields ==
    /\ last.op = "edit" =>
         EditKeepsLaterFields(before, tasks, last.id, last.args, last.res)
    /\ ~Running =>
         \A m \in {TodoManager_new(disk)} :
            \A id \in Ids, u \in FailingUpdates :
               \A r \in {edit_task(m, disk, id, u, "written")} :
                  EditKeepsLaterFields(m, r.tasks, id, u, r.res)

\* C1 witness: an Edit failed on its due date with the title already written
C1_Witness ==
    /\ last.op = "edit"
    /\ last.res = "InvalidDate"
    /\ IsSome(last.args.title)
    /\ tasks # before

\* C2: once a task with id k has been removed no later Add creates a task
\* with id k, and no two tasks of the collection share an id.
C2_RemovedIdNeverReassigned ==
    /\ (last.op = "add" /\ last.res = "ok") => last.id \notin removed
    /\ SharedIds(tasks) = {}

\* C3: after Add(t), ShowById(t.id) answers a task equal to t.
C3_AddThenShow ==
    (last.op = "add" /\ last.res = "ok") =>
        show_task(TodoManager_new(disk), last.id) = [res |-> "ok", task |-> last.task]

\* C4: after a successful Remove(id), ShowById(id) answers not found.
C4_RemoveThenShowNotFound ==
    (last.op = "remove" /\ last.res = "ok") =>
        show_task(TodoManager_new(disk), last.id).res = "NotFound"

\* C5: a task passes List's category filter exactly when the filter text,
\* ignoring letter case, equals the display label of the task's category.
C5_CategoryFilterIgnoresCase ==
    \A i \in DOMAIN tasks, c \in CategoryTexts :
        category_match(tasks[i], Filters(Some(c), None, FALSE, FALSE))
            <=> (to_lowercase(c) = to_lowercase(category_str(tasks[i].category)))

\* C6: a category text that matches none of personal, work, shopping, health
\* becomes the user-defined category whose label is exactly that text.
C6_OtherCategoryVerbatim ==
    /\ (last.op = "add" /\ last.res = "ok"
            /\ parse_category(last.args.category).variant = "Other") =>
         Unwrap(last.task).category = Other(last.args.category)
    /\ (last.op = "edit" /\ last.res = "ok" /\ IsSome(last.args.category)
            /\ parse_category(Unwrap(last.args.category)).variant = "Other") =>
         tasks[Position(before, last.id)].category = Other(Unwrap(last.args.category))

\* C7: with no category or priority filter, List with completed set answers
\* exactly the completed tasks in collection order, pending set or not; with
\* only pending set, exactly the tasks not completed; with neither, all.
C7_ListCompletion ==
    /\ \A ts \in {tasks, TodoManager_new(disk)} :
         /\ list_tasks(ts, Filters(None, None, TRUE, FALSE)) = WithFlag(ts, TRUE)
         /\ list_tasks(ts, Filters(None, None, TRUE, TRUE)) = WithFlag(ts, TRUE)
         /\ list_tasks(ts, Filters(None, None, FALSE, TRUE)) = WithFlag(ts, FALSE)
         /\ list_tasks(ts, Filters(None, None, FALSE, FALSE)) = ts
    /\ (last.op = "list" /\ last.args.category = None /\ last.args.priority = None) =>
         last.out = (IF last.args.completed THEN WithFlag(before, TRUE)
                     ELSE IF last.args.pending THEN WithFlag(before, FALSE)
                     ELSE before)

\* C7 witness: List with both flags set, on a collection with a completed
\* task after a pending one, answered some tasks and not all
C7_Witness ==
    /\ last.op = "list"
    /\ last.args.completed /\ last.args.pending
    /\ last.out # <<>>
    /\ last.out # before
    /\ ~before[1].completed

\* C8 (as stated): when Add, Complete, Remove or Edit returns a not-found or
\* an I/O error, the in-memory collection is as it was before the operation.
C8_FailureLeavesMemory ==
    (last.op \in {"add", "complete", "remove", "edit"}
        /\ last.res \in {"NotFound", "IoError"}) => tasks = before

\* C8 (amended): when Complete, Remove or Edit returns a not-found error the
\* in-memory collection is as it was before the operation; when Add,
\* Complete, Remove or Edit returns an I/O error the in-memory collection
\* holds the mutation: the task appended, completed, removed or edited.
C8_NotFoundLeavesMemory ==
    /\ (last.op \in {"add", "complete", "remove", "edit"} /\ last.res = "NotFound") =>
         tasks = before
    /\ (last.op = "add" /\ last.res = "IoError") =>
         tasks = Append(before, Unwrap(last.task))
    /\ (last.op = "complete" /\ last.res = "IoError") =>
         /\ Position(before, last.id) # 0
         /\ tasks = [before EXCEPT ![Position(before, last.id)].completed = TRUE]
    /\ (last.op = "remove" /\ last.res = "IoError") =>
         /\ Position(before, last.id) # 0
         /\ tasks = RemoveAt(before, Position(before, last.id))
    /\ (last.op = "edit" /\ last.res = "IoError") =>
         /\ Position(before, last.id) # 0
         /\ tasks = [before EXCEPT ![Position(before, last.id)] =
                        edit_apply(before[Position(before, last.id)], last.args).task]

\* C8 witness: an Add whose write failed ended with the task in memory
C8_Witness ==
    /\ last.op = "add"
    /\ last.res = "IoError"
    /\ Len(tasks) = Len(before) + 1

\* C9: after an Add, Complete, Remove or Edit that returns success the
\* backing file holds exactly the in-memory collection, so the next
\* invocation loads a collection equal to it.
C9_FileHoldsCollection ==
    (last.op \in {"add", "complete", "remove", "edit"} /\ last.res = "ok") =>
        /\ disk.exists /\ disk.valid
        /\ Len(disk.doc) = Len(tasks)
        /\ TodoManager_new(disk) = tasks

\* C9 witness: a successful Edit of a collection of two tasks, one of them
\* completed and one with a user-defined category, a due date and tags
C9_Witness ==
    /\ last.op = "edit"
    /\ last.res = "ok"
    /\ tasks # before
    /\ Len(tasks) = 2
    /\ \E i \in DOMAIN tasks : tasks[i].completed
    /\ \E i \in DOMAIN tasks :
         /\ tasks[i].category.variant = "Other"
         /\ tasks[i].due_date # None
         /\ tasks[i].tags # <<>>

\* C10: an Edit, Complete or Remove that returns a not-found error, and an
\* Edit that returns a due-date or priority error, leaves the backing file as
\* it was, so the next invocation loads the collection with the pre-edit
\* values, whatever update fields came with the invalid one.
C10_FailureLeavesFile ==
    /\ (last.op \in {"edit", "complete", "remove"}
            /\ last.res \in ValidationErrors \cup {"NotFound"}) =>
         /\ disk = diskBefore
         /\ TodoManager_new(disk) = before
    /\ ~Running =>
         \A m \in {TodoManager_new(disk)} :
            \A id \in Ids :
               /\ \A u \in FailingUpdates :
                    \A r \in {edit_task(m, disk, id, u, "written")} :
                       /\ r.res \in ValidationErrors \cup {"NotFound"}
                       /\ r.disk = disk
               /\ Position(m, id) = 0 =>
                    \A io \in IoOutcomes :
                       /\ complete_task(m, disk, id, io).disk = disk
                       /\ remove_task(m, disk, id, io).disk = disk
                       /\ \A u \in EditInputs : edit_task(m, disk, id, u, io).disk = disk

\* C10 witness: an Edit failed on its priority with the in-memory task
\* changed and the file as it was
C10_Witness ==
    /\ last.op = "edit"
    /\ last.res = "InvalidPriority"
    /\ tasks # before
    /\ disk = diskBefore
    /\ disk.exists

=============================================================================
